---- MODULE Spec2Model ----
(***************************************************************************)
(* A model of the Nylas Python SDK's request plumbing:                     *)
(*   nylas/handler/http_client.py   HttpClient                             *)
(*   nylas/resources/auth.py        Auth and its query builders            *)
(*   nylas/models/list_response.py  ListResponse                           *)
(*                                                                         *)
(* Python values are tagged records.  A Python str is a sequence of        *)
(* elements, each a single character or a run of URL-unreserved            *)
(* characters written as one element ("access_type", "/v3/connect/auth").  *)
(* A dict is the sequence of its (key, value) items in insertion order.    *)
(***************************************************************************)
EXTENDS Integers, Sequences, FiniteSets, TLC

VARIABLES
    api_server,     \* HttpClient.api_server
    api_key,        \* HttpClient.api_key
    timeout,        \* HttpClient.timeout
    session,        \* HttpClient.session
    op,             \* the last call made on the SDK: its name and arguments
    ret,            \* what that call returned or raised
    wire,           \* the session.request invocations made during that call
    ncalls,         \* calls made so far
    extra_headers,  \* the caller's headers object after the call
    config,         \* the caller's config object (Auth mutates it in place)
    prev            \* name and outcome of the call before the last one

vars == <<api_server, api_key, timeout, session, op, ret, wire, ncalls,
          extra_headers, config, prev>>

(***************************************************************************)
(* Bounds of the model.                                                    *)
(***************************************************************************)
MaxCalls == 2     \* calls in one behaviour
MaxScopes == 2    \* length of a config's scope list
MaxItems == 2     \* length of a list response's data

(***************************************************************************)
(* Python values.                                                          *)
(***************************************************************************)
None == [t |-> "None"]
True == [t |-> "bool", b |-> TRUE]
Str(s) == [t |-> "str", s |-> s]
List(l) == [t |-> "list", l |-> l]
Dict(d) == [t |-> "dict", d |-> d]

\* Python truthiness, as `if x:` and `if not x:` evaluate it.
bool(v) ==
    CASE v.t = "None" -> FALSE
      [] v.t = "bool" -> v.b
      [] v.t = "str" -> v.s # <<>>
      [] v.t = "list" -> v.l # <<>>
      [] v.t = "dict" -> v.d # <<>>
      [] OTHER -> TRUE

\* sep.join(parts) for a sequence of strings.
RECURSIVE JoinSeq(_, _)
JoinSeq(sep, parts) ==
    IF parts = <<>> THEN <<>>
    ELSE IF Len(parts) = 1 THEN parts[1]
    ELSE parts[1] \o sep \o JoinSeq(sep, Tail(parts))

\* sep.join(v): a list yields its elements, a str yields its characters.
join(sep, v) ==
    IF v.t = "list" THEN JoinSeq(sep, v.l)
    ELSE JoinSeq(sep, [i \in 1..Len(v.s) |-> <<v.s[i]>>])

\* repr of the elements of a list of str: 'a', 'b'
RECURSIVE repr_items(_)
repr_items(l) ==
    IF l = <<>> THEN <<>>
    ELSE <<"'">> \o l[1] \o <<"'">>
         \o (IF Len(l) > 1 THEN <<",", " ">> ELSE <<>>)
         \o repr_items(Tail(l))

\* str(v), which urlencode applies to every value.
py_str(v) ==
    CASE v.t = "str" -> v.s
      [] v.t = "None" -> <<"N", "o", "n", "e">>
      [] v.t = "list" -> <<"[">> \o repr_items(v.l) \o <<"]">>

(***************************************************************************)
(* dict operations.                                                        *)
(***************************************************************************)
DictKeys(d) == {d.d[i][1] : i \in 1..Len(d.d)}
DictHas(d, k) == k \in DictKeys(d)
DictGet(d, k) == d.d[CHOOSE i \in 1..Len(d.d) : d.d[i][1] = k][2]
\* d.get(k, default)
DictGetOr(d, k, default) == IF DictHas(d, k) THEN DictGet(d, k) ELSE default
\* d[k] = v: an existing key keeps its position, a new key goes last.
DictSet(d, k, v) ==
    IF DictHas(d, k)
    THEN Dict([i \in 1..Len(d.d) |-> IF d.d[i][1] = k THEN <<k, v>> ELSE d.d[i]])
    ELSE Dict(Append(d.d, <<k, v>>))
\* {**a, **b}
RECURSIVE DictMerge(_, _)
DictMerge(a, b) ==
    IF b.d = <<>> THEN a
    ELSE DictMerge(DictSet(a, b.d[1][1], b.d[1][2]), Dict(Tail(b.d)))

(***************************************************************************)
(* urllib.parse.urlencode, with quote_plus as its quote_via.               *)
(***************************************************************************)
Reserved == {"&", "=", "+", "/", "?", "[", "]", "'", ",", "%", ":"}
PercentCode(c) ==
    CASE c = "&" -> <<"%", "2", "6">>
      [] c = "=" -> <<"%", "3", "D">>
      [] c = "+" -> <<"%", "2", "B">>
      [] c = "/" -> <<"%", "2", "F">>
      [] c = "?" -> <<"%", "3", "F">>
      [] c = "[" -> <<"%", "5", "B">>
      [] c = "]" -> <<"%", "5", "D">>
      [] c = "'" -> <<"%", "2", "7">>
      [] c = "," -> <<"%", "2", "C">>
      [] c = "%" -> <<"%", "2", "5">>
      [] c = ":" -> <<"%", "3", "A">>

quote_char(c) ==
    IF c = " " THEN <<"+">>
    ELSE IF c \in Reserved THEN PercentCode(c)
    ELSE <<c>>

RECURSIVE quote_plus(_)
quote_plus(s) ==
    IF s = <<>> THEN <<>> ELSE quote_char(s[1]) \o quote_plus(Tail(s))

\* query is the sequence of a dict's items; doseq is False.
RECURSIVE urlencode(_)
urlencode(query) ==
    IF query = <<>> THEN <<>>
    ELSE quote_plus(<<query[1][1]>>) \o <<"=">> \o quote_plus(py_str(query[1][2]))
         \o (IF Len(query) > 1 THEN <<"&">> ELSE <<>>)
         \o urlencode(Tail(query))

(***************************************************************************)
(* HttpClient.                                                             *)
(***************************************************************************)
\* "Nylas Python SDK {__VERSION__} - {major}.{minor}.{revision}"
user_agent_header ==
    <<"Nylas", " ", "Python", " ", "SDK", " ", "__VERSION__", " ", "-", " ",
      "major.minor.revision">>

\* Variant of _build_headers in which the defaults are merged over the extra
\* headers, {**extra_headers, **headers}: C2 must fail on it.
_build_headers_defaults_win(extra) ==
    LET extra_headers_ == IF extra = None THEN Dict(<<>>) ELSE extra
        headers ==
            Dict(<< <<"X-Nylas-API-Wrapper", Str(<<"python">>)>>,
                    <<"User-Agent", Str(user_agent_header)>>,
                    <<"Content-type", Str(<<"application/json">>)>>,
                    <<"Authorization", Str(<<"Bearer", " ">> \o api_key)>> >>)
    IN  [result |-> DictMerge(extra_headers_, headers), extra_headers |-> extra]

\* The merged headers, and the caller's extra_headers object after the call.
_build_headers(extra) ==
    LET extra_headers_ == IF extra = None THEN Dict(<<>>) ELSE extra
        headers ==
            Dict(<< <<"X-Nylas-API-Wrapper", Str(<<"python">>)>>,
                    <<"User-Agent", Str(user_agent_header)>>,
                    <<"Content-type", Str(<<"application/json">>)>>,
                    <<"Authorization", Str(<<"Bearer", " ">> \o api_key)>> >>)
    IN  [result |-> DictMerge(headers, extra_headers_), extra_headers |-> extra]

\* The dict _build_request returns (lines 55-59), with the caller's headers
\* object carried along.
_request_dict(method, url, built) ==
    [method |-> method, url |-> url, headers |-> built.result,
     extra_headers |-> built.extra_headers]

\* Variant of _build_request that tests `query_params is not None` instead of
\* its truth, so an empty mapping leaves a trailing '?': C1 must fail on it.
_build_request_not_none(method, path, headers, query_params) ==
    _request_dict(method,
                  IF query_params # None
                  THEN api_server \o path \o <<"?">> \o urlencode(query_params.d)
                  ELSE api_server \o path,
                  _build_headers(headers))

_build_request(method, path, headers, query_params) ==
    _request_dict(method,
                  IF bool(query_params)
                  THEN api_server \o path \o <<"?">> \o urlencode(query_params.d)
                  ELSE api_server \o path,
                  _build_headers(headers))

\* One invocation of requests.Session.request as HttpClient makes it: the
\* positional method and url, the keywords headers and json, and whatever
\* timeout keyword is passed (None when the keyword is not given).
session_request(method, url, headers, json, timeout_kw) ==
    [session |-> session, method |-> method, url |-> url, headers |-> headers,
     json |-> json, timeout |-> timeout_kw]

\* Variant of _send that sends the request again when the answer is a 5xx:
\* C4 must fail on it.
_send_retry_5xx(request, request_body, response) ==
    [sent |-> IF response.status_code >= 500
              THEN << session_request(request.method, request.url,
                                      request.headers, request_body, None),
                      session_request(request.method, request.url,
                                      request.headers, request_body, None) >>
              ELSE << session_request(request.method, request.url,
                                      request.headers, request_body, None) >>,
     err |-> "None",
     val |-> response,
     extra_headers |-> request.extra_headers]

\* Lines 37-45 of _execute: the built request goes to the session once and
\* the session's answer `response` is returned as it is.  Yields the requests
\* sent, the outcome, and the caller's headers object afterwards.
_send(request, request_body, response) ==
    [sent |-> <<session_request(request.method, request.url,
                                request.headers, request_body, None)>>,
     err |-> "None",
     val |-> response,
     extra_headers |-> request.extra_headers]

_execute(method, path, headers, query_params, request_body, response) ==
    _send(_build_request(method, path, headers, query_params), request_body, response)

\* Python's binding of a keyword call to _execute's signature
\*   (self, method, path, headers: None, query_params=None, request_body=None)
\* where only query_params and request_body have defaults.
_execute_required == {"method", "path", "headers"}
_execute_kw(kwargs, response) ==
    IF ~(_execute_required \subseteq DOMAIN kwargs)
    THEN [sent |-> <<>>, err |-> "TypeError", val |-> None, extra_headers |-> None]
    ELSE _execute(kwargs.method, kwargs.path, kwargs.headers,
                  IF "query_params" \in DOMAIN kwargs THEN kwargs.query_params ELSE None,
                  IF "request_body" \in DOMAIN kwargs THEN kwargs.request_body ELSE None,
                  response)

(***************************************************************************)
(* nylas/resources/auth.py: the PKCE hash.                                 *)
(*                                                                         *)
(* hashlib.sha256 is stood in for by a 16-bit polynomial hash of the       *)
(* secret's characters (a deterministic digest of two bytes instead of     *)
(* thirty-two); base64.b64encode is computed as the standard alphabet      *)
(* with '=' padding.                                                       *)
(***************************************************************************)
Ord(c) ==
    CASE c = "-" -> 45
      [] c = "0" -> 48 [] c = "1" -> 49 [] c = "2" -> 50 [] c = "3" -> 51
      [] c = "4" -> 52 [] c = "5" -> 53 [] c = "6" -> 54 [] c = "7" -> 55
      [] c = "8" -> 56 [] c = "9" -> 57
      [] c = "a" -> 97 [] c = "b" -> 98 [] c = "c" -> 99 [] c = "d" -> 100
      [] c = "e" -> 101 [] c = "f" -> 102

RECURSIVE sha256_acc(_, _)
sha256_acc(h, s) ==
    IF s = <<>> THEN h ELSE sha256_acc((h * 31 + Ord(s[1])) % 65536, Tail(s))

\* hashlib.sha256(secret.encode()).digest(), as a sequence of bytes.
sha256_digest(secret) ==
    << sha256_acc(7, secret) \div 256, sha256_acc(7, secret) % 256 >>

B64Alphabet ==
    <<"A", "B", "C", "D", "E", "F", "G", "H", "I", "J", "K", "L", "M",
      "N", "O", "P", "Q", "R", "S", "T", "U", "V", "W", "X", "Y", "Z",
      "a", "b", "c", "d", "e", "f", "g", "h", "i", "j", "k", "l", "m",
      "n", "o", "p", "q", "r", "s", "t", "u", "v", "w", "x", "y", "z",
      "0", "1", "2", "3", "4", "5", "6", "7", "8", "9", "+", "/">>

B64(n) == B64Alphabet[n + 1]

\* base64.b64encode(bytes).decode()
RECURSIVE b64encode(_)
b64encode(b) ==
    IF b = <<>> THEN <<>>
    ELSE IF Len(b) = 1
    THEN << B64(b[1] \div 4), B64((b[1] % 4) * 16), "=", "=" >>
    ELSE IF Len(b) = 2
    THEN << B64(b[1] \div 4), B64((b[1] % 4) * 16 + b[2] \div 16),
            B64((b[2] % 16) * 4), "=" >>
    ELSE << B64(b[1] \div 4), B64((b[1] % 4) * 16 + b[2] \div 16),
            B64((b[2] % 16) * 4 + b[3] \div 64), B64(b[3] % 64) >>
         \o b64encode(SubSeq(b, 4, Len(b)))

_hash_pkce_secret(secret) == b64encode(sha256_digest(secret))

(***************************************************************************)
(* nylas/resources/auth.py: the query builders.  Each works on the dict    *)
(* object it is given and yields that object's contents afterwards, with   *)
(* the error raised on the way, if any ("None" when it returned).          *)
(***************************************************************************)
\* Variant of lines 33-36 that joins the scopes with ',': C8 must fail on it.
_build_query_scopes_comma(c) ==
    [err |-> "None",
     config |-> IF bool(DictGet(c, "scopes"))
                THEN DictSet(c, "scopes", Str(join(<<",">>, DictGet(c, "scopes"))))
                ELSE c]

\* Lines 33-36, reached once config["scopes"] was found.
_build_query_scopes(c) ==
    [err |-> "None",
     config |-> IF bool(DictGet(c, "scopes"))
                THEN DictSet(c, "scopes", Str(join(<<" ">>, DictGet(c, "scopes"))))
                ELSE c]

\* Lines 30-33, reached once config["access_type"] was found.
_build_query_access_type(c) ==
    IF ~DictHas(c, "scopes")
    THEN [err |-> "KeyError", config |-> c]
    ELSE _build_query_scopes(c)

\* Lines 28-30, after config["response_type"] = "code".
_build_query_response_type(c) ==
    IF ~DictHas(c, "access_type")
    THEN [err |-> "KeyError", config |-> c]
    ELSE _build_query_access_type(
             IF ~bool(DictGet(c, "access_type"))
             THEN DictSet(c, "access_type", Str(<<"online">>))
             ELSE c)

_build_query(cfg) ==
    _build_query_response_type(DictSet(cfg, "response_type", Str(<<"code">>)))

\* Variant of lines 42-45 that names the method 'S256': C7 must fail on it.
_pkce_params_upper(q, secret_hash) ==
    IF q.err # "None" THEN q
    ELSE [err |-> "None",
          config |-> DictSet(DictSet(q.config, "code_challenge", Str(secret_hash)),
                             "code_challenge_method", Str(<<"S256">>))]

\* Lines 42-45 on the object _build_query returned.
_pkce_params(q, secret_hash) ==
    IF q.err # "None" THEN q
    ELSE [err |-> "None",
          config |-> DictSet(DictSet(q.config, "code_challenge", Str(secret_hash)),
                             "code_challenge_method", Str(<<"s256">>))]

_build_query_with_pkce(cfg, secret_hash) ==
    _pkce_params(_build_query(cfg), secret_hash)

\* Lines 51-54 on the object _build_query returned (params is config).
_admin_consent_params(q) ==
    IF q.err # "None" THEN q
    ELSE IF ~DictHas(q.config, "credentialId")
    THEN [err |-> "KeyError",
          config |-> DictSet(q.config, "response_type", Str(<<"adminconsent">>))]
    ELSE [err |-> "None",
          config |-> DictSet(DictSet(q.config, "response_type", Str(<<"adminconsent">>)),
                             "credential_id", DictGet(q.config, "credentialId"))]

_build_query_with_admin_consent(cfg) == _admin_consent_params(_build_query(cfg))

_url_auth_builder(query) ==
    api_server \o <<"/v3/connect/auth", "?">> \o urlencode(query.d)

\* The PkceAuthUrl(secret, secret_hash, url) tuple.
PkceAuthUrl(secret, secret_hash, url) ==
    [t |-> "PkceAuthUrl", secret |-> Str(secret), secret_hash |-> Str(secret_hash),
     url |-> Str(url)]

\* Outcome of a url_for_* method from what its query builder yielded: the
\* value returned or the error raised, and the dict object the builder worked on.
_url_outcome(q) ==
    [err |-> q.err,
     val |-> IF q.err = "None" THEN Str(_url_auth_builder(q.config)) ELSE None,
     config |-> q.config]

_pkce_outcome(q, secret, secret_hash) ==
    [err |-> q.err,
     val |-> IF q.err = "None"
             THEN PkceAuthUrl(secret, secret_hash, _url_auth_builder(q.config))
             ELSE None,
     config |-> q.config]

(***************************************************************************)
(* nylas/models/list_response.py.                                          *)
(***************************************************************************)
\* generic_type.from_dict(item): the model class builds its object from the
\* item's fields.
generic_from_dict(generic_type, item) ==
    [t |-> generic_type, fields |-> item.d]

ListResponse___new__(data, request_id, next_cursor) ==
    [t |-> "ListResponse",
     tuple |-> <<data, request_id, next_cursor>>,
     data |-> data, request_id |-> request_id, next_cursor |-> next_cursor]

\* Variant of the loop that inserts each converted item at the front:
\* C3 must fail on it.
converted_data_front(items, generic_type) ==
    List([i \in 1..Len(items) |->
            generic_from_dict(generic_type, items[Len(items) + 1 - i])])

\* Lines 28-30: the loop over resp["data"].
converted_data(items, generic_type) ==
    List([i \in 1..Len(items) |-> generic_from_dict(generic_type, items[i])])

ListResponse_from_dict(resp, generic_type) ==
    IF ~DictHas(resp, "data") THEN [err |-> "KeyError", val |-> None]
    ELSE IF ~DictHas(resp, "request_id") THEN [err |-> "KeyError", val |-> None]
    ELSE [err |-> "None",
          val |-> ListResponse___new__(
                      converted_data(DictGet(resp, "data").l, generic_type),
                      DictGet(resp, "request_id"),
                      DictGetOr(resp, "next_cursor", None))]

(***************************************************************************)
(* Inputs.                                                                 *)
(***************************************************************************)
\* Constructor arguments (api_server, api_key, timeout).
Clients ==
    { << <<"https://api.us.nylas.com">>, <<"k", "1">>, [t |-> "int", n |-> 30] >>,
      << <<"https://api.eu.nylas.com">>, <<"k", "2">>, [t |-> "int", n |-> 90] >> }

Paths == { <<"/v3/grants/", "g", "1", "/calendars">>, <<"/v3/connect/token">> }

HeaderArgs ==
    { None,
      Dict(<<>>),
      Dict(<< <<"Authorization", Str(<<"Basic", " ", "x">>)>> >>),
      Dict(<< <<"X-Trace", Str(<<"t">>)>>, <<"Content-type", Str(<<"text/plain">>)>> >>) }

QueryParamArgs ==
    { None,
      Dict(<<>>),
      Dict(<< <<"q", Str(<<"a", " ", "b", "&", "c", "=">>)>>, <<"limit", Str(<<"5">>)>> >>),
      Dict(<< <<"limit", Str(<<"5">>)>>, <<"page_token", Str(<<"x", "/", "y", "?">>)>> >>) }

Bodies == { None, Dict(<< <<"name", Str(<<"n">>)>> >>) }

Response(status) == [t |-> "Response", status_code |-> status]
Responses == { Response(200), Response(500) }

Tokens == { <<"t", "1">>, <<"t", "+", "/">> }

\* What uuid.uuid4() may give, shortened to three characters.
Uuids == { <<"5", "2", "a">>, <<"4", "a", "-">> }

\* Configs: each key absent or present, in one insertion order.
ScopeNames == { <<"e", "m">>, <<"c", "a", "l">> }
ScopeLists == UNION { [1..n -> ScopeNames] : n \in 0..MaxScopes }
ProviderItems == { <<>>, << <<"provider", Str(<<"g", "o">>)>> >> }
AccessTypeItems ==
    { <<>>,
      << <<"access_type", None>> >>,
      << <<"access_type", Str(<<>>)>> >>,
      << <<"access_type", Str(<<"offline">>)>> >> }
ScopesItems ==
    { <<>>, << <<"scopes", None>> >> }
    \cup { << <<"scopes", List(l)>> >> : l \in ScopeLists }
CredentialItems == { <<>>, << <<"credentialId", Str(<<"c", "&", "1">>)>> >> }
Configs ==
    { Dict(p \o a \o sc \o cr) :
        p \in ProviderItems, a \in AccessTypeItems, sc \in ScopesItems,
        cr \in CredentialItems }

\* API list responses: 'data', 'request_id' and 'next_cursor' each absent or present.
Items ==
    { Dict(<< <<"id", Str(<<"c", "1">>)>> >>),
      Dict(<< <<"id", Str(<<"c", "2">>)>>, <<"name", Str(<<"n">>)>> >>) }
DataItems ==
    { <<>> } \cup { << <<"data", List(l)>> >> :
                      l \in UNION { [1..n -> Items] : n \in 0..MaxItems } }
RequestIdItems == { <<>>, << <<"request_id", Str(<<"r", "1">>)>> >> }
NextCursorItems ==
    { <<>>, << <<"next_cursor", None>> >>, << <<"next_cursor", Str(<<"p", "2">>)>> >> }
Resps ==
    { Dict(r \o d \o n) : r \in RequestIdItems, d \in DataItems, n \in NextCursorItems }
GenericTypes == { "Calendar", "Grant" }

NoCall == [name |-> "none"]

(***************************************************************************)
(* Construction.                                                           *)
(***************************************************************************)
InitClient ==
    /\ \E c \in Clients :
        /\ api_server = c[1]
        /\ api_key = c[2]
        /\ timeout = c[3]
    /\ session = [t |-> "Session", id |-> 1]
    /\ op = [name |-> "__init__"]
    /\ ret = [err |-> "None", val |-> None]
    /\ wire = <<>>
    /\ ncalls = 0
    /\ extra_headers = None
    /\ prev = NoCall

\* The client alone: the caller holds no config.
Init ==
    /\ InitClient
    /\ config = None

\* The caller holds a config dict to pass to Auth.
InitAuth ==
    /\ InitClient
    /\ config \in Configs

(***************************************************************************)
(* HttpClient.get/post/put/patch/delete.                                   *)
(***************************************************************************)
\* What every verb does: one call of _execute with positional arguments.
Verb(name, method, path, headers, query_params, request_body, response) ==
    /\ ncalls < MaxCalls
    /\ \E e \in {_execute(method, path, headers, query_params, request_body, response)} :
        /\ op' = [name |-> name, path |-> path, headers |-> headers,
                  query_params |-> query_params, request_body |-> request_body,
                  response |-> response]
        /\ ret' = [err |-> e.err, val |-> e.val]
        /\ wire' = e.sent
        /\ ncalls' = ncalls + 1
        /\ extra_headers' = e.extra_headers
        /\ UNCHANGED <<api_server, api_key, timeout, session, config, prev>>

get(path, headers, query_params, response) ==
    Verb("get", "GET", path, headers, query_params, None, response)

post(path, headers, query_params, request_body, response) ==
    Verb("post", "POST", path, headers, query_params, request_body, response)

put(path, headers, query_params, request_body, response) ==
    Verb("put", "PUT", path, headers, query_params, request_body, response)

patch(path, headers, query_params, request_body, response) ==
    Verb("patch", "PATCH", path, headers, query_params, request_body, response)

delete(path, headers, query_params, response) ==
    Verb("delete", "DELETE", path, headers, query_params, None, response)

\* Auth.revoke: one keyword call of _execute, then True.
revoke(token, response) ==
    /\ ncalls < MaxCalls
    /\ \E e \in {_execute_kw([method |-> "POST",
                           path |-> <<"/v3/connect/revoke">>,
                           query_params |-> Dict(<< <<"token", Str(token)>> >>)],
                          response)} :
        /\ op' = [name |-> "revoke", token |-> token]
        /\ ret' = IF e.err = "None" THEN [err |-> "None", val |-> True]
                  ELSE [err |-> e.err, val |-> None]
        /\ wire' = e.sent
        /\ ncalls' = ncalls + 1
        /\ extra_headers' = None
        /\ UNCHANGED <<api_server, api_key, timeout, session, config, prev>>

Next ==
    \/ \E path \in Paths, headers \in HeaderArgs, query_params \in QueryParamArgs,
          response \in Responses :
        \/ get(path, headers, query_params, response)
        \/ delete(path, headers, query_params, response)
        \/ \E request_body \in Bodies :
            \/ post(path, headers, query_params, request_body, response)
            \/ put(path, headers, query_params, request_body, response)
            \/ patch(path, headers, query_params, request_body, response)
    \/ \E token \in Tokens, response \in Responses : revoke(token, response)

Spec == Init /\ [][Next]_vars

(***************************************************************************)
(* Auth's URL builders, called with the caller's config object.            *)
(***************************************************************************)
\* What every URL builder leaves behind besides its outcome.
AuthFrame ==
    /\ wire' = <<>>
    /\ ncalls' = ncalls + 1
    /\ prev' = [name |-> op.name, ret |-> ret]
    /\ UNCHANGED <<api_server, api_key, timeout, session, extra_headers>>

url_for_oauth2 ==
    /\ ncalls < MaxCalls
    /\ \E o \in {_url_outcome(_build_query(config))} :
        /\ op' = [name |-> "url_for_oauth2", config |-> config]
        /\ ret' = [err |-> o.err, val |-> o.val]
        /\ config' = o.config
        /\ AuthFrame

\* `secret` is str(uuid.uuid4()).
url_for_oauth2_pkce(secret) ==
    /\ ncalls < MaxCalls
    /\ \E h \in {_hash_pkce_secret(secret)} :
      \E o \in {_pkce_outcome(_build_query_with_pkce(config, h), secret, h)} :
        /\ op' = [name |-> "url_for_oauth2_pkce", config |-> config]
        /\ ret' = [err |-> o.err, val |-> o.val]
        /\ config' = o.config
        /\ AuthFrame

\* {"provider": "microsoft", **config}
config_with_provider(cfg) ==
    DictMerge(Dict(<< <<"provider", Str(<<"microsoft">>)>> >>), cfg)

\* The builder works on config_with_provider, a new dict: the caller's
\* object is not written to.
url_for_admin_consent ==
    /\ ncalls < MaxCalls
    /\ \E o \in {_url_outcome(_build_query_with_admin_consent(config_with_provider(config)))} :
        /\ op' = [name |-> "url_for_admin_consent", config |-> config]
        /\ ret' = [err |-> o.err, val |-> o.val]
        /\ config' = config
        /\ AuthFrame

NextAuth ==
    \/ url_for_oauth2
    \/ \E secret \in Uuids : url_for_oauth2_pkce(secret)
    \/ url_for_admin_consent

SpecAuth == InitAuth /\ [][NextAuth]_vars

(***************************************************************************)
(* ListResponse.from_dict on an API response.                              *)
(***************************************************************************)
from_dict(resp, generic_type) ==
    /\ ncalls < MaxCalls
    /\ \E r \in {ListResponse_from_dict(resp, generic_type)} :
        /\ op' = [name |-> "ListResponse.from_dict", resp |-> resp,
                  generic_type |-> generic_type]
        /\ ret' = r
        /\ wire' = <<>>
        /\ ncalls' = ncalls + 1
        /\ UNCHANGED <<api_server, api_key, timeout, session, extra_headers,
                       config, prev>>

NextList ==
    \E resp \in Resps, generic_type \in GenericTypes : from_dict(resp, generic_type)

SpecList == Init /\ [][NextList]_vars

(***************************************************************************)
(* Reading a URL back: what a server parsing the request line sees.        *)
(***************************************************************************)
RECURSIVE IndexOf(_, _, _)
IndexOf(s, c, i) ==
    IF i > Len(s) THEN 0 ELSE IF s[i] = c THEN i ELSE IndexOf(s, c, i + 1)

Contains(s, c) == IndexOf(s, c, 1) # 0

\* s occurs in u as a contiguous run.
Occurs(s, u) ==
    \E i \in 1..(Len(u) - Len(s) + 1) : SubSeq(u, i, i + Len(s) - 1) = s

RECURSIVE Split(_, _)
Split(s, sep) ==
    IF ~Contains(s, sep) THEN <<s>>
    ELSE <<SubSeq(s, 1, IndexOf(s, sep, 1) - 1)>>
         \o Split(SubSeq(s, IndexOf(s, sep, 1) + 1, Len(s)), sep)

Unescape(a, b) ==
    CASE <<a, b>> = <<"2", "6">> -> "&"
      [] <<a, b>> = <<"3", "D">> -> "="
      [] <<a, b>> = <<"2", "B">> -> "+"
      [] <<a, b>> = <<"2", "F">> -> "/"
      [] <<a, b>> = <<"3", "F">> -> "?"
      [] <<a, b>> = <<"5", "B">> -> "["
      [] <<a, b>> = <<"5", "D">> -> "]"
      [] <<a, b>> = <<"2", "7">> -> "'"
      [] <<a, b>> = <<"2", "C">> -> ","
      [] <<a, b>> = <<"2", "5">> -> "%"
      [] <<a, b>> = <<"3", "A">> -> ":"
      [] OTHER -> "?"

RECURSIVE unquote_plus(_)
unquote_plus(s) ==
    IF s = <<>> THEN <<>>
    ELSE IF s[1] = "+" THEN <<" ">> \o unquote_plus(Tail(s))
    ELSE IF s[1] = "%" /\ Len(s) >= 3
    THEN <<Unescape(s[2], s[3])>> \o unquote_plus(SubSeq(s, 4, Len(s)))
    ELSE <<s[1]>> \o unquote_plus(Tail(s))

\* One key=value piece of a query string, decoded.
ParsePair(p) ==
    IF Contains(p, "=")
    THEN << unquote_plus(SubSeq(p, 1, IndexOf(p, "=", 1) - 1)),
            unquote_plus(SubSeq(p, IndexOf(p, "=", 1) + 1, Len(p))) >>
    ELSE << unquote_plus(p), <<>> >>

\* The decoded (key, value) pairs of a query string, in order.
ParseQs(q) ==
    IF q = <<>> THEN <<>>
    ELSE [i \in 1..Len(Split(q, "&")) |-> ParsePair(Split(q, "&")[i])]

\* The part of a URL after its first '?' (empty when there is none).
QueryOf(url) ==
    IF Contains(url, "?") THEN SubSeq(url, IndexOf(url, "?", 1) + 1, Len(url)) ELSE <<>>

\* The part of a URL before its first '?'.
BaseOf(url) ==
    IF Contains(url, "?") THEN SubSeq(url, 1, IndexOf(url, "?", 1) - 1) ELSE url

\* The values a parsed query gives for a key.
QsValues(pairs, key) == { pairs[i][2] : i \in {j \in 1..Len(pairs) : pairs[j][1] = <<key>>} }

\* A dict's items as (key, text) pairs, the way a parsed query shows them.
ItemsAsText(d) == [i \in 1..Len(d.d) |-> << <<d.d[i][1]>>, d.d[i][2].s >>]

Verbs == {"get", "post", "put", "patch", "delete"}
VerbMethod(name) ==
    CASE name = "get" -> "GET" [] name = "post" -> "POST" [] name = "put" -> "PUT"
      [] name = "patch" -> "PATCH" [] name = "delete" -> "DELETE"

IsEmptyArg(v) == v = None \/ v = Dict(<<>>)

(***************************************************************************)
(* C1.  _build_request builds the URL as api_server followed by path; with *)
(* query_params None or empty nothing follows the path and the URL holds   *)
(* no '?'; with query_params non-empty the URL is api_server + path + '?'  *)
(* + the url-encoded key=value pairs, one per key, in the mapping's order  *)
(* (read back, the query gives exactly the mapping's items); and 'method'  *)
(* is the method passed in.  Observed on the request each verb sends.      *)
(***************************************************************************)
C1_BuildRequestUrl ==
    op.name \in Verbs =>
        /\ Len(wire) >= 1
        /\ wire[1].method = VerbMethod(op.name)
        /\ SubSeq(wire[1].url, 1, Len(api_server) + Len(op.path)) = api_server \o op.path
        /\ IsEmptyArg(op.query_params) =>
               /\ wire[1].url = api_server \o op.path
               /\ ~Contains(wire[1].url, "?")
        /\ ~IsEmptyArg(op.query_params) =>
               /\ BaseOf(wire[1].url) = api_server \o op.path
               /\ ParseQs(QueryOf(wire[1].url)) = ItemsAsText(op.query_params)
               /\ Len(Split(QueryOf(wire[1].url), "&")) = Len(op.query_params.d)
               /\ ~Contains(QueryOf(wire[1].url), " ")
               /\ ~Contains(QueryOf(wire[1].url), "?")

\* A call with two query parameters whose values need escaping has been sent.
C1_Witness ==
    /\ op.name \in Verbs
    /\ ~IsEmptyArg(op.query_params)
    /\ Len(op.query_params.d) = 2
    /\ Contains(op.query_params.d[1][2].s, "&")
    /\ Len(wire) = 1
    /\ Contains(wire[1].url, "?")

(***************************************************************************)
(* C2.  _build_headers: the result's keys are the four default keys and    *)
(* the keys of extra_headers; a key of extra_headers has the extra value;  *)
(* every other default key has its default value, Authorization being      *)
(* 'Bearer ' followed by the client's api_key; and the caller's            *)
(* extra_headers object is as it was.  Observed on each verb's request.    *)
(***************************************************************************)
DefaultHeaderKeys == {"X-Nylas-API-Wrapper", "User-Agent", "Content-type", "Authorization"}
DefaultHeaderValue(k) ==
    CASE k = "X-Nylas-API-Wrapper" -> Str(<<"python">>)
      [] k = "User-Agent" -> Str(user_agent_header)
      [] k = "Content-type" -> Str(<<"application/json">>)
      [] k = "Authorization" -> Str(<<"Bearer", " ">> \o api_key)
ExtraKeys(h) == IF h = None THEN {} ELSE DictKeys(h)

C2_BuildHeadersMerge ==
    op.name \in Verbs =>
        /\ Len(wire) >= 1
        /\ DictKeys(wire[1].headers) = DefaultHeaderKeys \cup ExtraKeys(op.headers)
        /\ Len(wire[1].headers.d) = Cardinality(DictKeys(wire[1].headers))
        /\ \A k \in ExtraKeys(op.headers) :
               DictGet(wire[1].headers, k) = DictGet(op.headers, k)
        /\ \A k \in DefaultHeaderKeys \ ExtraKeys(op.headers) :
               DictGet(wire[1].headers, k) = DefaultHeaderValue(k)
        /\ extra_headers = op.headers

\* A call whose extra headers carry their own Authorization has been sent.
C2_Witness ==
    /\ op.name \in Verbs
    /\ "Authorization" \in ExtraKeys(op.headers)
    /\ Len(wire) = 1
    /\ DictGet(wire[1].headers, "Authorization") = DictGet(op.headers, "Authorization")
    /\ DictGet(wire[1].headers, "Authorization") # DefaultHeaderValue("Authorization")

(***************************************************************************)
(* C4.  Each call of get, post, put, patch or delete sends exactly one     *)
(* request through the session created at construction, with its own verb, *)
(* the URL and headers _build_request produces, the given request_body as  *)
(* JSON for post/put/patch and none for get/delete; and the session's      *)
(* response is returned unchanged whatever its status, no error raised.    *)
(***************************************************************************)
C4_OneRequestPerCall ==
    op.name \in Verbs =>
        /\ Len(wire) = 1
        /\ wire[1].session = [t |-> "Session", id |-> 1]
        /\ wire[1].session = session
        /\ wire[1].method = VerbMethod(op.name)
        /\ wire[1].url =
               _build_request(wire[1].method, op.path, op.headers, op.query_params).url
        /\ wire[1].headers =
               _build_request(wire[1].method, op.path, op.headers, op.query_params).headers
        /\ wire[1].json = (IF op.name \in {"post", "put", "patch"}
                           THEN op.request_body ELSE None)
        /\ ret = [err |-> "None", val |-> op.response]

\* A second call in a row, a post with a body, was answered 500 and returned it.
C4_Witness ==
    /\ op.name = "post"
    /\ ncalls = 2
    /\ op.request_body # None
    /\ op.response.status_code = 500
    /\ Len(wire) = 1
    /\ ret.val.status_code = 500

(***************************************************************************)
(* C5.  Auth.revoke(token) sends exactly one POST request to api_server +  *)
(* '/v3/connect/revoke' with the query parameter token=<token> and then    *)
(* returns True.                                                           *)
(***************************************************************************)
C5_RevokeSendsAndReturnsTrue ==
    op.name = "revoke" =>
        /\ Len(wire) = 1
        /\ wire[1].method = "POST"
        /\ BaseOf(wire[1].url) = api_server \o <<"/v3/connect/revoke">>
        /\ ParseQs(QueryOf(wire[1].url)) = << << <<"token">>, op.token >> >>
        /\ ret = [err |-> "None", val |-> True]

(***************************************************************************)
(* C10.  Every request HttpClient sends through its session is sent with   *)
(* the timeout the client was constructed with.                            *)
(***************************************************************************)
C10_RequestsCarryTimeout ==
    \A i \in 1..Len(wire) : wire[i].timeout = timeout

(***************************************************************************)
(* C3.  ListResponse.from_dict: for a resp with 'data' and 'request_id'    *)
(* the result's data has the length of resp['data'] and its i-th element   *)
(* is generic_type.from_dict of the i-th item, request_id is               *)
(* resp['request_id'], and next_cursor is resp['next_cursor'] when that    *)
(* key is present and None when it is absent; a resp lacking 'data' or     *)
(* 'request_id' yields an error and no ListResponse.                       *)
(***************************************************************************)
C3_FromDictFaithful ==
    op.name = "ListResponse.from_dict" =>
        IF DictHas(op.resp, "data") /\ DictHas(op.resp, "request_id")
        THEN /\ ret.err = "None"
             /\ ret.val.t = "ListResponse"
             /\ Len(ret.val.data.l) = Len(DictGet(op.resp, "data").l)
             /\ \A i \in 1..Len(ret.val.data.l) :
                    ret.val.data.l[i] =
                        generic_from_dict(op.generic_type, DictGet(op.resp, "data").l[i])
             /\ ret.val.request_id = DictGet(op.resp, "request_id")
             /\ ret.val.next_cursor =
                    (IF DictHas(op.resp, "next_cursor")
                     THEN DictGet(op.resp, "next_cursor") ELSE None)
             /\ ret.val.tuple = <<ret.val.data, ret.val.request_id, ret.val.next_cursor>>
        ELSE /\ ret.err # "None"
             /\ ret.val = None

\* A response with two different items and no next_cursor has been parsed.
C3_Witness ==
    /\ op.name = "ListResponse.from_dict"
    /\ DictHas(op.resp, "data") /\ DictHas(op.resp, "request_id")
    /\ ~DictHas(op.resp, "next_cursor")
    /\ Len(DictGet(op.resp, "data").l) = 2
    /\ DictGet(op.resp, "data").l[1] # DictGet(op.resp, "data").l[2]
    /\ ret.err = "None"
    /\ Len(ret.val.data.l) = 2
    /\ ret.val.next_cursor = None

(***************************************************************************)
(* C6.  Auth.url_for_admin_consent: for every config, one carrying its own *)
(* 'provider' included, the returned URL is api_server +                   *)
(* '/v3/connect/auth?' + query where the query has provider=microsoft,     *)
(* response_type=adminconsent (never 'code') and credential_id equal to    *)
(* the config's 'credentialId'; and the caller's config is unchanged.      *)
(***************************************************************************)
C6_AdminConsentUrl ==
    (op.name = "url_for_admin_consent" /\ ret.err = "None") =>
        /\ BaseOf(ret.val.s) = api_server \o <<"/v3/connect/auth">>
        /\ QsValues(ParseQs(QueryOf(ret.val.s)), "provider") = { <<"microsoft">> }
        /\ QsValues(ParseQs(QueryOf(ret.val.s)), "response_type") = { <<"adminconsent">> }
        /\ QsValues(ParseQs(QueryOf(ret.val.s)), "credential_id")
               = { DictGet(op.config, "credentialId").s }
        /\ config = op.config

(***************************************************************************)
(* C7.  Auth.url_for_oauth2_pkce returns (secret, secret_hash, url) with   *)
(* secret_hash = _hash_pkce_secret(secret), the url's query carrying       *)
(* code_challenge equal to that secret_hash, code_challenge_method 's256'  *)
(* and response_type 'code', and the plain secret nowhere in the url.      *)
(***************************************************************************)
C7_PkceTripleConsistent ==
    (op.name = "url_for_oauth2_pkce" /\ ret.err = "None") =>
        /\ ret.val.t = "PkceAuthUrl"
        /\ ret.val.secret_hash.s = _hash_pkce_secret(ret.val.secret.s)
        /\ ret.val.secret_hash # ret.val.secret
        /\ BaseOf(ret.val.url.s) = api_server \o <<"/v3/connect/auth">>
        /\ QsValues(ParseQs(QueryOf(ret.val.url.s)), "code_challenge")
               = { ret.val.secret_hash.s }
        /\ QsValues(ParseQs(QueryOf(ret.val.url.s)), "code_challenge_method")
               = { <<"s256">> }
        /\ QsValues(ParseQs(QueryOf(ret.val.url.s)), "response_type") = { <<"code">> }
        /\ ~Occurs(ret.val.secret.s, ret.val.url.s)

\* A PKCE URL was returned whose hash needed escaping in the query.
C7_Witness ==
    /\ op.name = "url_for_oauth2_pkce"
    /\ ret.err = "None"
    /\ Contains(ret.val.secret_hash.s, "+")
    /\ Contains(ret.val.secret_hash.s, "=")
    /\ Occurs(<<"code_challenge", "=", "%", "2", "B">>, ret.val.url.s)

(***************************************************************************)
(* C8.  _build_query(config), for a config with the keys 'access_type' and *)
(* 'scopes', returns a query in which response_type is 'code', access_type *)
(* is 'online' when the config's is None or empty and the config's own     *)
(* otherwise, scopes is the scope list joined in order by single spaces    *)
(* when the list is non-empty and as given when it is empty or None, and   *)
(* every other key is carried over unchanged; a config lacking             *)
(* 'access_type' or 'scopes' yields an error instead of a query.           *)
(* Observed through url_for_oauth2: the query is the config it was given.  *)
(***************************************************************************)
BuiltKeys == {"response_type", "access_type", "scopes"}

C8_BuildQuery ==
    op.name = "url_for_oauth2" =>
        IF DictHas(op.config, "access_type") /\ DictHas(op.config, "scopes")
        THEN /\ ret.err = "None"
             /\ DictKeys(config) = DictKeys(op.config) \cup {"response_type"}
             /\ Len(config.d) = Cardinality(DictKeys(config))
             /\ DictGet(config, "response_type") = Str(<<"code">>)
             /\ DictGet(config, "access_type") =
                    (IF DictGet(op.config, "access_type") \in {None, Str(<<>>)}
                     THEN Str(<<"online">>) ELSE DictGet(op.config, "access_type"))
             /\ (DictGet(op.config, "scopes").t = "list"
                 /\ DictGet(op.config, "scopes").l # <<>>) =>
                    /\ DictGet(config, "scopes").t = "str"
                    /\ Split(DictGet(config, "scopes").s, " ")
                           = DictGet(op.config, "scopes").l
             /\ DictGet(op.config, "scopes") \in {None, List(<<>>), Str(<<>>)} =>
                    DictGet(config, "scopes") = DictGet(op.config, "scopes")
             /\ \A k \in DictKeys(op.config) \ BuiltKeys :
                    DictGet(config, k) = DictGet(op.config, k)
             /\ ParseQs(QueryOf(ret.val.s)) =
                    [i \in 1..Len(config.d) |->
                        << <<config.d[i][1]>>, py_str(config.d[i][2]) >>]
        ELSE /\ ret.err = "KeyError"
             /\ ret.val = None

\* A query was built from a config with no access_type value and two scopes.
C8_Witness ==
    /\ op.name = "url_for_oauth2"
    /\ DictHas(op.config, "access_type") /\ DictHas(op.config, "scopes")
    /\ DictHas(op.config, "provider")
    /\ DictGet(op.config, "access_type") = None
    /\ DictGet(op.config, "scopes") = List(<< <<"e", "m">>, <<"c", "a", "l">> >>)
    /\ DictGet(config, "scopes") = Str(<<"e", "m", " ", "c", "a", "l">>)
    /\ DictGet(config, "access_type") = Str(<<"online">>)

(***************************************************************************)
(* C9.  Auth.url_for_oauth2 is repeatable: called twice in a row with the  *)
(* same config object it returns the same URL both times, and the caller's *)
(* config holds the same keys and values after the call as before it.      *)
(***************************************************************************)
C9_UrlForOauth2Repeatable ==
    (/\ op.name = "url_for_oauth2"
     /\ prev.name = "url_for_oauth2"
     /\ prev.ret.err = "None") =>
        /\ ret = prev.ret
        /\ config = op.config

====
